---------------------------- MODULE Spec2Model ----------------------------
(***************************************************************************)
(* A model of the Gliesereum wallet library (src/gliesereum.ts).           *)
(*                                                                         *)
(* The library is a set of pure functions over byte buffers and strings.  *)
(* The state of the model is what a caller of the library holds: the last *)
(* wallet it was given, the last signature it was given, and the outcome  *)
(* of its last call (a returned value or a thrown error).                 *)
(*                                                                         *)
(* Representation.  A Buffer is a sequence of bytes 0..255.  A JavaScript  *)
(* string is a sequence of character codes.  A thrown error is an outcome *)
(* of kind "throw"; a returned value is an outcome of kind "return".      *)
(***************************************************************************)
EXTENDS Integers, Sequences, FiniteSets, TLC

(***************************************************************************)
(* Sequence helpers in the shape of the Buffer methods the code uses.     *)
(***************************************************************************)

\* Buffer.slice(start, end) with JavaScript's index rules: a negative index
\* counts from the end, both are clamped to 0..length, and an empty range
\* gives an empty buffer.  start and end are 0-based, end exclusive.
Slice(buf, start, end) ==
  LET n  == Len(buf)
      s0 == IF start < 0 THEN n + start ELSE start
      e0 == IF end < 0 THEN n + end ELSE end
      s  == IF s0 < 0 THEN 0 ELSE IF s0 > n THEN n ELSE s0
      e  == IF e0 < 0 THEN 0 ELSE IF e0 > n THEN n ELSE e0
  IN  IF e <= s THEN << >> ELSE SubSeq(buf, s + 1, e)

\* Buffer.slice(start): to the end of the buffer.
SliceFrom(buf, start) == Slice(buf, start, Len(buf))

\* buf[0] of a typed array: undefined past the end.  Buffer.from([undefined])
\* stores the byte 0, which is what every use of the value in the code does.
ByteAt0(buf) == IF Len(buf) = 0 THEN 0 ELSE buf[1]

Reverse(s) == [i \in 1..Len(s) |-> s[Len(s) + 1 - i]]

(***************************************************************************)
(* Text encodings.                                                         *)
(***************************************************************************)

ReplacementChar == 65533

\* How many continuation bytes the lead byte c announces (0: c is no lead).
Utf8Need(c) ==
  IF c >= 194 /\ c <= 223 THEN 1
  ELSE IF c >= 224 /\ c <= 239 THEN 2
  ELSE IF c >= 240 /\ c <= 244 THEN 3
  ELSE 0

\* The range the first continuation byte must lie in, after lead byte c.
Utf8Lo(c) == IF c = 224 THEN 160 ELSE IF c = 240 THEN 144 ELSE 128
Utf8Hi(c) == IF c = 237 THEN 159 ELSE IF c = 244 THEN 143 ELSE 191

\* The number of well-formed continuation bytes that follow the lead at i.
RECURSIVE Utf8Follow(_, _, _, _)
Utf8Follow(b, i, k, need) ==
  IF k = need \/ i + k + 1 > Len(b) THEN k
  ELSE LET c  == b[i + k + 1]
           lo == IF k = 0 THEN Utf8Lo(b[i]) ELSE 128
           hi == IF k = 0 THEN Utf8Hi(b[i]) ELSE 191
       IN  IF c >= lo /\ c <= hi THEN Utf8Follow(b, i, k + 1, need) ELSE k

Utf8CodePoint(b, i, need) ==
  IF need = 1 THEN (b[i] % 32) * 64 + (b[i + 1] % 64)
  ELSE IF need = 2 THEN (b[i] % 16) * 4096 + (b[i + 1] % 64) * 64 + (b[i + 2] % 64)
  ELSE (b[i] % 8) * 262144 + (b[i + 1] % 64) * 4096 + (b[i + 2] % 64) * 64
       + (b[i + 3] % 64)

\* bytes.toString('utf8'): the code points of the buffer read as UTF-8; every
\* ill-formed subsequence becomes one U+FFFD.
RECURSIVE Utf8DecodeFrom(_, _)
Utf8DecodeFrom(b, i) ==
  IF i > Len(b) THEN << >>
  ELSE IF b[i] < 128 THEN <<b[i]>> \o Utf8DecodeFrom(b, i + 1)
  ELSE LET need == Utf8Need(b[i])
           k    == Utf8Follow(b, i, 0, need)
       IN  IF need > 0 /\ k = need
           THEN <<Utf8CodePoint(b, i, need)>> \o Utf8DecodeFrom(b, i + 1 + need)
           ELSE <<ReplacementChar>> \o Utf8DecodeFrom(b, i + 1 + k)

Utf8Decode(b) == Utf8DecodeFrom(b, 1)

Utf8EncodeChar(c) ==
  IF c < 128 THEN <<c>>
  ELSE IF c < 2048 THEN <<192 + (c \div 64), 128 + (c % 64)>>
  ELSE IF c < 65536
       THEN <<224 + (c \div 4096), 128 + ((c \div 64) % 64), 128 + (c % 64)>>
  ELSE <<240 + (c \div 262144), 128 + ((c \div 4096) % 64), 128 + ((c \div 64) % 64),
         128 + (c % 64)>>

\* The UTF-8 bytes of a string: crypto-js hashes a string argument through
\* this encoding, and Buffer.from(str, 'utf8') is the same conversion.
RECURSIVE Utf8Encode(_)
Utf8Encode(str) ==
  IF str = << >> THEN << >> ELSE Utf8EncodeChar(Head(str)) \o Utf8Encode(Tail(str))

\* The character code of the lowercase hex digit d (0..15).
HexChar(d) == IF d < 10 THEN 48 + d ELSE 87 + d

\* The lowercase hex string of a byte sequence (two characters per byte).
HexString(b) ==
  [i \in 1..(2 * Len(b)) |->
     IF i % 2 = 1 THEN HexChar(b[(i + 1) \div 2] \div 16) ELSE HexChar(b[i \div 2] % 16)]

IsHexChar(c) == (c >= 48 /\ c <= 57) \/ (c >= 97 /\ c <= 102) \/ (c >= 65 /\ c <= 70)

HexVal(c) == IF c >= 97 THEN c - 87 ELSE IF c >= 65 THEN c - 55 ELSE c - 48

\* Buffer.from(str, 'hex'): one byte per pair of hex digits, stopping at the
\* first pair that is not two hex digits (an odd last character is dropped).
RECURSIVE HexDecode(_)
HexDecode(str) ==
  IF Len(str) < 2 \/ ~IsHexChar(str[1]) \/ ~IsHexChar(str[2]) THEN << >>
  ELSE <<HexVal(str[1]) * 16 + HexVal(str[2])>> \o HexDecode(SubSeq(str, 3, Len(str)))

(***************************************************************************)
(* Base58 (bs58: base-x over the Bitcoin alphabet).                        *)
(***************************************************************************)

\* The character codes of
\* 123456789ABCDEFGHJKLMNPQRSTUVWXYZabcdefghijkmnopqrstuvwxyz
ALPHABET ==
  << 49, 50, 51, 52, 53, 54, 55, 56, 57,
     65, 66, 67, 68, 69, 70, 71, 72, 74, 75, 76, 77, 78, 80, 81, 82, 83, 84, 85,
     86, 87, 88, 89, 90,
     97, 98, 99, 100, 101, 102, 103, 104, 105, 106, 107, 109, 110, 111, 112,
     113, 114, 115, 116, 117, 118, 119, 120, 121, 122 >>

BASE == Len(ALPHABET)

\* One pass of the base conversion: digits (least significant first, in base
\* `to`) times `from` plus carry.
RECURSIVE MulAdd(_, _, _, _)
MulAdd(digits, carry, from, to) ==
  IF digits = << >>
  THEN IF carry = 0 THEN << >>
       ELSE <<(carry % to)>> \o MulAdd(<< >>, carry \div to, from, to)
  ELSE LET v == carry + from * Head(digits)
       IN  <<v % to>> \o MulAdd(Tail(digits), v \div to, from, to)

\* The digits (least significant first) in base `to` of the number whose
\* digits in base `from` (most significant first) are src.
RECURSIVE Convert(_, _, _, _)
Convert(src, acc, from, to) ==
  IF src = << >> THEN acc
  ELSE Convert(Tail(src), MulAdd(acc, Head(src), from, to), from, to)

RECURSIVE LeadingCount(_, _)
LeadingCount(s, x) ==
  IF s = << >> \/ Head(s) # x THEN 0 ELSE 1 + LeadingCount(Tail(s), x)

\* bs58.encode: one '1' per leading zero byte, then the base-58 digits.
Base58Encode(bytes) ==
  LET zeroes == LeadingCount(bytes, 0)
      digits == Reverse(Convert(SubSeq(bytes, zeroes + 1, Len(bytes)), << >>, 256, BASE))
  IN  [i \in 1..zeroes |-> ALPHABET[1]] \o [i \in 1..Len(digits) |-> ALPHABET[digits[i] + 1]]

IsBase58Char(c) == \E i \in 1..BASE : ALPHABET[i] = c

Base58Index(c) == (CHOOSE i \in 1..BASE : ALPHABET[i] = c) - 1

\* bs58.decode: throws 'Non-base58 character' on a character outside the
\* alphabet; the empty string decodes to the empty buffer.
Base58Decode(str) ==
  IF \E i \in 1..Len(str) : ~IsBase58Char(str[i])
  THEN [ok |-> FALSE, val |-> << >>]
  ELSE LET zeroes == LeadingCount(str, ALPHABET[1])
           rest   == SubSeq(str, zeroes + 1, Len(str))
           idx    == [i \in 1..Len(rest) |-> Base58Index(rest[i])]
           bytes  == Reverse(Convert(idx, << >>, BASE, 256))
       IN  [ok |-> TRUE, val |-> [i \in 1..zeroes |-> 0] \o bytes]

(***************************************************************************)
(* The curve context EC (elliptic's `ec`).                                 *)
(*                                                                         *)
(* secp256k1 is y^2 = x^3 + 7 over a 256-bit prime field, with a group of  *)
(* prime order n < p.  The model keeps the equation and every algorithm of *)
(* the library, over an 8-bit field: y^2 = x^3 + 7 over GF(211) has prime  *)
(* order 199 < 211, and 211 = 3 (mod 4) as for secp256k1.  A coordinate or *)
(* a scalar is therefore one byte where secp256k1 has thirty-two.          *)
(***************************************************************************)

CurveP == 211
CurveN == 199
CurveB == 7

\* p.byteLength() and n.byteLength(): the bytes of a coordinate, of a scalar.
CoordBytes == 1

\* n.bitLength()
NBitLength == 8

RECURSIVE ModPow(_, _, _)
ModPow(a, e, m) ==
  IF e = 0 THEN 1 % m
  ELSE LET h == ModPow(a, e \div 2, m)
       IN  IF e % 2 = 0 THEN (h * h) % m ELSE (((h * h) % m) * (a % m)) % m

\* a.invm(m), m prime.
InvM(a, m) == ModPow(a % m, m - 2, m)

Infinity == [inf |-> TRUE, x |-> 0, y |-> 0]

Point(x, y) == [inf |-> FALSE, x |-> x, y |-> y]

G == Point(3, 178)

\* Point.dbl
PointDbl(p) ==
  IF p.inf THEN p
  ELSE IF (2 * p.y) % CurveP = 0 THEN Infinity
  ELSE LET c  == (3 * p.x * p.x * InvM(2 * p.y, CurveP)) % CurveP
           nx == (c * c + 2 * (CurveP - p.x)) % CurveP
           ny == (c * (p.x + CurveP - nx) + (CurveP - p.y)) % CurveP
       IN  Point(nx, ny)

\* Point.add
PointAdd(p, q) ==
  IF p.inf THEN q
  ELSE IF q.inf THEN p
  ELSE IF p = q THEN PointDbl(p)
  ELSE IF p.x = q.x THEN Infinity
  ELSE LET c  == ((p.y + CurveP - q.y) * InvM(p.x + CurveP - q.x, CurveP)) % CurveP
           nx == (c * c + (CurveP - p.x) + (CurveP - q.x)) % CurveP
           ny == (c * (p.x + CurveP - nx) + (CurveP - p.y)) % CurveP
       IN  Point(nx, ny)

\* Point.mul: k times p.
RECURSIVE PointMul(_, _)
PointMul(k, p) ==
  IF k = 0 THEN Infinity
  ELSE LET h == PointDbl(PointMul(k \div 2, p))
       IN  IF k % 2 = 1 THEN PointAdd(h, p) ELSE h

\* Every multiple of the base point, computed once.
GTable == [k \in 0..(CurveN - 1) |-> PointMul(k, G)]

\* g.mul(k)
GMul(k) == GTable[k % CurveN]

\* curve.pointFromX(x, odd): throws 'invalid point' when x^3 + 7 is no square.
pointFromX(x, odd) ==
  LET xr == x % CurveP
      y2 == (xr * xr * xr + CurveB) % CurveP
      y  == ModPow(y2, (CurveP + 1) \div 4, CurveP)
  IN  IF (y * y) % CurveP # y2 THEN [ok |-> FALSE, err |-> "invalid point", val |-> Infinity]
      ELSE [ok |-> TRUE, err |-> "",
            val |-> IF (y % 2 = 1) # odd THEN Point(xr, (CurveP - y) % CurveP)
                    ELSE Point(xr, y)]

\* curve.decodePoint(bytes): the compressed form (02|03, x) is checked against
\* the curve equation by pointFromX; the uncompressed form (04, x, y) is taken
\* as it is; anything else throws 'Unknown point format'.
decodePoint(bytes) ==
  IF Len(bytes) = 1 + 2 * CoordBytes /\ bytes[1] \in {4, 6, 7}
  THEN IF (bytes[1] = 6 /\ bytes[3] % 2 # 0) \/ (bytes[1] = 7 /\ bytes[3] % 2 # 1)
       THEN [ok |-> FALSE, err |-> "Assertion failed", val |-> Infinity]
       ELSE [ok |-> TRUE, err |-> "", val |-> Point(bytes[2], bytes[3])]
  ELSE IF Len(bytes) = 1 + CoordBytes /\ bytes[1] \in {2, 3}
  THEN pointFromX(bytes[2], bytes[1] = 3)
  ELSE [ok |-> FALSE, err |-> "Unknown point format", val |-> Infinity]

\* point.encode('array', true), the compressed form.  The point at infinity
\* has no coordinates: getX() throws a TypeError.
encodeCompressed(p) ==
  IF p.inf THEN [ok |-> FALSE, err |-> "TypeError", val |-> << >>]
  ELSE [ok |-> TRUE, err |-> "", val |-> <<IF p.y % 2 = 0 THEN 2 ELSE 3, p.x>>]

\* point.encode('hex'), the uncompressed form 04 || x || y.
encodeUncompressed(p) ==
  IF p.inf THEN [ok |-> FALSE, err |-> "TypeError", val |-> << >>]
  ELSE [ok |-> TRUE, err |-> "", val |-> <<4, p.x, p.y>>]

\* new BN(str, 16) of a string of hex digits.
RECURSIVE ParseHexFrom(_, _)
ParseHexFrom(str, acc) ==
  IF str = << >> THEN acc ELSE ParseHexFrom(Tail(str), acc * 16 + HexVal(Head(str)))

BNHex(str) == ParseHexFrom(str, 0)

\* new BN(str): with no base given, bn.js reads a string in base 10.
RECURSIVE ParseDecFrom(_, _)
ParseDecFrom(str, acc) ==
  IF str = << >> THEN acc ELSE ParseDecFrom(Tail(str), acc * 10 + HexVal(Head(str)))

BNDec(str) == ParseDecFrom(str, 0)

\* new BN(buffer): big-endian bytes.
RECURSIVE BNBytesFrom(_, _)
BNBytesFrom(b, acc) ==
  IF b = << >> THEN acc ELSE BNBytesFrom(Tail(b), acc * 256 + Head(b))

BNBytes(b) == BNBytesFrom(b, 0)

RECURSIVE BitLength(_)
BitLength(v) == IF v = 0 THEN 0 ELSE 1 + BitLength(v \div 2)

ByteLength(v) == (BitLength(v) + 7) \div 8

RECURSIVE Pow2(_)
Pow2(k) == IF k = 0 THEN 1 ELSE 2 * Pow2(k - 1)

\* ec._truncateToN(msg, truncOnly)
truncateToN(msg, truncOnly) ==
  LET delta == ByteLength(msg) * 8 - NBitLength
      m     == IF delta > 0 THEN msg \div Pow2(delta) ELSE msg
  IN  IF ~truncOnly /\ m >= CurveN THEN m - CurveN ELSE m

\* bn.toString(16, 2): hex digits, padded to whole bytes ("00" for zero).
RECURSIVE BNToBytes(_)
BNToBytes(v) == IF v < 256 THEN <<v>> ELSE Append(BNToBytes(v \div 256), v % 256)

BNToHex(v) == HexString(BNToBytes(v))

\* ec.keyFromPrivate: the scalar is reduced modulo n, never rejected.
keyFromPrivate(priv) == priv % CurveN

\* keyPair.getPublic(): g.mul(priv).
getPublic(priv) == GMul(priv)

(***************************************************************************)
(* ECDSA as elliptic computes it.                                          *)
(***************************************************************************)

\* A Signature without a recovery id carries recoveryParam = null, which is
\* not a number; the model writes it -1.
NoRecoveryParam == -1

Signature(r, s, recoveryParam) == [r |-> r, s |-> s, recoveryParam |-> recoveryParam]

\* n >> 1, the bound of a canonical (low) s.
CurveNH == CurveN \div 2

\* One round of the signing loop of ec.sign with the nonce k that the
\* HMAC-DRBG (seeded with the key and the message) hands out: the round is
\* skipped (ok = FALSE) when k, r or s is out of range.  The message string
\* is read as a hexadecimal number.
ecSign(msg, keyBytes, k) ==
  LET priv == keyFromPrivate(BNBytes(keyBytes))
      e    == truncateToN(BNHex(msg), FALSE)
      kp   == GMul(k)
      r    == kp.x % CurveN
      s    == (InvM(k, CurveN) * ((r * priv + e) % CurveN)) % CurveN
      rec  == (IF kp.y % 2 = 1 THEN 1 ELSE 0) + (IF kp.x # r THEN 2 ELSE 0)
      flip == IF rec % 2 = 1 THEN rec - 1 ELSE rec + 1
  IN  IF k <= 1 \/ k >= CurveN - 1 \/ kp.inf \/ r = 0 \/ s = 0
      THEN [ok |-> FALSE, val |-> Signature(0, 0, NoRecoveryParam)]
      ELSE IF s > CurveNH
      THEN [ok |-> TRUE, val |-> Signature(r, CurveN - s, flip)]
      ELSE [ok |-> TRUE, val |-> Signature(r, s, rec)]

\* p.getX().umod(n) = r for p = u1 * G + u2 * Q.
ecVerifyPoint(e, sig, pub) ==
  LET sinv == InvM(sig.s, CurveN)
      u1   == (sinv * e) % CurveN
      u2   == (sinv * sig.r) % CurveN
      p    == PointAdd(GMul(u1), PointMul(u2, pub))
  IN  IF p.inf THEN FALSE ELSE p.x % CurveN = sig.r

\* ec.verify(msg, signature, key, 'hex'): the key is decoded first, and a key
\* that decodes to no point throws; r or s out of 1..n-1 gives false.
ecVerify(msg, sig, keyBytes) ==
  LET e   == truncateToN(BNHex(msg), FALSE)
      key == decodePoint(keyBytes)
  IN  IF ~key.ok THEN [ok |-> FALSE, err |-> key.err, val |-> FALSE]
      ELSE IF sig.r < 1 \/ sig.r >= CurveN \/ sig.s < 1 \/ sig.s >= CurveN
      THEN [ok |-> TRUE, err |-> "", val |-> FALSE]
      ELSE [ok |-> TRUE, err |-> "", val |-> ecVerifyPoint(e, sig, key.val)]

\* ec.recoverPubKey(msg, signature, j, 'hex'): the message string goes to
\* `new BN(msg)`, which reads it in base 10.
ecRecoverPubKey(msg, sig, j) ==
  LET e           == BNDec(msg)
      isYOdd      == j % 2 = 1
      isSecondKey == j \div 2 = 1
      R           == IF isSecondKey THEN pointFromX(sig.r + CurveN, isYOdd)
                     ELSE pointFromX(sig.r, isYOdd)
      rInv        == InvM(sig.r, CurveN)
      s1          == ((CurveN - (e % CurveN)) * rInv) % CurveN
      s2          == (sig.s * rInv) % CurveN
  IN  IF j \notin 0..3
      THEN [ok |-> FALSE, err |-> "The recovery param is more than two bits", val |-> Infinity]
      ELSE IF sig.r >= CurveP % CurveN /\ isSecondKey
      THEN [ok |-> FALSE, err |-> "Unable to find sencond key candinate", val |-> Infinity]
      ELSE IF ~R.ok THEN [ok |-> FALSE, err |-> R.err, val |-> Infinity]
      ELSE [ok |-> TRUE, err |-> "",
            val |-> PointAdd(GMul(s1), PointMul(s2, R.val))]

(***************************************************************************)
(* JavaScript numbers.  cardNumber works on values up to 2^64, beyond the  *)
(* integers a double holds exactly.  The model writes such a number as     *)
(* five 16-bit limbs, least significant first, and rounds where a double   *)
(* rounds.                                                                 *)
(***************************************************************************)

\* The significand of a double.
MantissaBits == 53

LimbBits == 16
LimbBase == Pow2(LimbBits)
Limbs == 1..5

\* The limbs a function on Limbs gives, as a tuple.
LimbsOf(f) == <<f[1], f[2], f[3], f[4], f[5]>>

Zero == LimbsOf([j \in Limbs |-> 0])

\* a < b
RECURSIVE LLessFrom(_, _, _)
LLessFrom(a, b, j) ==
  IF j = 0 THEN FALSE
  ELSE IF a[j] # b[j] THEN a[j] < b[j]
  ELSE LLessFrom(a, b, j - 1)

LLess(a, b) == LLessFrom(a, b, 5)

\* The carry into limb j of a + b.
RECURSIVE Carry(_, _, _)
Carry(a, b, j) ==
  IF j = 1 THEN 0 ELSE (a[j - 1] + b[j - 1] + Carry(a, b, j - 1)) \div LimbBase

\* a + b
LAdd(a, b) == LimbsOf([j \in Limbs |-> (a[j] + b[j] + Carry(a, b, j)) % LimbBase])

\* The borrow from limb j of a - b.
RECURSIVE Borrow(_, _, _)
Borrow(a, b, j) ==
  IF j = 1 THEN 0 ELSE IF a[j - 1] - b[j - 1] - Borrow(a, b, j - 1) < 0 THEN 1 ELSE 0

\* a - b, for a >= b
LSub(a, b) ==
  LimbsOf([j \in Limbs |-> (a[j] - b[j] - Borrow(a, b, j) + LimbBase) % LimbBase])

\* a * 2^k, for k < 16
LShl(a, k) ==
  LimbsOf([j \in Limbs |->
             ((a[j] * Pow2(k)) % LimbBase)
             + (IF j = 1 THEN 0 ELSE a[j - 1] \div Pow2(LimbBits - k))])

\* The number of binary digits of a.
LBitLength(a) ==
  IF a = Zero THEN 0
  ELSE LET top == CHOOSE j \in Limbs : a[j] # 0 /\ \A i \in Limbs : i > j => a[i] = 0
       IN  LimbBits * (top - 1) + BitLength(a[top])

RECURSIVE LModFrom(_, _, _)
LModFrom(a, m, i) ==
  LET mi == LShl(m, i)
      r  == IF LLess(a, mi) THEN a ELSE LSub(a, mi)
  IN  IF i = 0 THEN r ELSE LModFrom(r, m, i - 1)

\* a % m for a < 2^12 * m: exact, as the remainder of two doubles that hold
\* integers is.
LMod(a, m) == LModFrom(a, m, 11)

\* The double nearest to the integer a, ties to the even significand (a has
\* at most 16 digits more than a significand holds).
RoundToDouble(a) ==
  IF LBitLength(a) <= MantissaBits THEN a
  ELSE LET drop == LBitLength(a) - MantissaBits
           ulp  == Pow2(drop)
           rest == a[1] % ulp
           odd  == (a[1] \div ulp) % 2 = 1
           up   == rest * 2 > ulp \/ (rest * 2 = ulp /\ odd)
           cut  == [a EXCEPT ![1] = a[1] - rest]
       IN  IF up THEN LAdd(cut, [Zero EXCEPT ![1] = ulp]) ELSE cut

\* The limbs of the number a string of at most sixteen hex digits writes.
LimbsOfHex(str) ==
  LET Digit(pos) == IF pos >= 1 THEN HexVal(str[pos]) ELSE 0
  IN  LimbsOf([j \in Limbs |->
                 LET low == Len(str) - 4 * (j - 1)
                 IN  Digit(low) + 16 * Digit(low - 1) + 256 * Digit(low - 2)
                     + 4096 * Digit(low - 3)])

\* parseInt(str, 16) of a string of hex digits: the nearest double.
parseInt16(str) == RoundToDouble(LimbsOfHex(str))

\* a divided by ten: the quotient and the remainder, from limb j down.
RECURSIVE DivMod10(_, _, _)
DivMod10(a, j, rem) ==
  LET v == rem * LimbBase + a[j]
  IN  IF j = 1 THEN [q |-> [Zero EXCEPT ![1] = v \div 10], r |-> v % 10]
      ELSE LET low == DivMod10(a, j - 1, v % 10)
           IN  [q |-> [low.q EXCEPT ![j] = v \div 10], r |-> low.r]

\* The decimal digits of a number, most significant first (the way the
\* number prints).
RECURSIVE DecimalDigits(_)
DecimalDigits(a) ==
  IF a = Zero THEN << >>
  ELSE LET d == DivMod10(a, 5, 0)
       IN  Append(DecimalDigits(d.q), d.r)

\* 1000000000000000 and 9000000000000000, written in hex.
TenTo15 == LimbsOfHex(<<51, 56, 100, 55, 101, 97, 52, 99, 54, 56, 48, 48, 48>>)
NineTenTo15 ==
  LimbsOfHex(<<49, 102, 102, 57, 55, 51, 99, 97, 102, 97, 56, 48, 48, 48>>)

(***************************************************************************)
(* The hash primitives.  SHA-256 (crypto-js) and RIPEMD-160 (@noble/hashes) *)
(* are given by their values: each vector below is the primitive's digest  *)
(* of the message before it, for every message the library hashes on the   *)
(* inputs of this model.  A message outside the vectors has no value here. *)
(***************************************************************************)

SHA256Vectors ==
  {
    <<<<0>>,
      <<110, 52, 11, 156, 255, 179, 122, 152, 156, 165, 68, 230, 187, 120, 10,
        44, 120, 144, 29, 63, 179, 55, 56, 118, 133, 17, 163, 6, 23, 175, 160,
        29>>>>,
    <<<<19>>,
      <<171, 137, 127, 189, 237, 250, 80, 43, 45, 131, 155, 106, 86, 16, 8,
        135, 220, 205, 197, 7, 85, 92, 40, 46, 89, 88, 158, 6, 48, 10, 98,
        226>>>>,
    <<<<2, 3>>,
      <<238, 144, 64, 246, 92, 52, 24, 85, 224, 112, 255, 67, 142, 176, 234,
        157, 91, 131, 27, 42, 44, 39, 15, 183, 239, 89, 45, 117, 4, 8, 227,
        179>>>>,
    <<<<3, 94>>,
      <<100, 179, 135, 250, 252, 1, 222, 250, 15, 91, 210, 176, 145, 224, 224,
        127, 184, 247, 181, 12, 137, 169, 74, 254, 131, 54, 211, 250, 169,
        226, 225, 12>>>>,
    <<<<239, 191, 189>>,
      <<131, 213, 68, 204, 194, 35, 192, 87, 210, 191, 128, 211, 242, 163, 41,
        130, 195, 44, 60, 13, 184, 226, 103, 72, 32, 218, 80, 100, 120, 63,
        176, 151>>>>,
    <<<<3, 239, 191, 189>>,
      <<145, 13, 4, 48, 55, 201, 56, 167, 103, 248, 45, 199, 35, 41, 195, 121,
        47, 186, 207, 117, 230, 165, 97, 174, 33, 173, 72, 54, 195, 45, 78,
        12>>>>,
    <<<<103, 54, 67, 106, 99, 118, 75, 121, 52, 83, 57, 113, 81, 74, 102, 122,
      76, 85, 65, 120, 52, 49, 121, 74, 107, 101, 75, 57, 80, 107>>,
      <<48, 19, 12, 46, 251, 228, 86, 97, 60, 106, 117, 0, 175, 51, 233, 201,
        203, 72, 11, 15, 23, 186, 212, 250, 211, 184, 72, 7, 243, 197, 142,
        213>>>>,
    <<<<103, 55, 85, 106, 87, 78, 117, 101, 55, 85, 119, 99, 65, 111, 88, 69,
      89, 82, 105, 110, 89, 111, 107, 103, 56, 54, 72, 74, 65, 90>>,
      <<184, 24, 254, 205, 217, 39, 200, 45, 152, 218, 72, 56, 123, 239, 246,
        77, 254, 90, 211, 25, 94, 183, 235, 232, 64, 163, 111, 174, 1, 186,
        135, 106>>>>,
    <<<<103, 74, 98, 110, 84, 100, 105, 104, 74, 111, 104, 122, 82, 51, 100,
      104, 66, 89, 54, 50, 100, 110, 69, 88, 51, 68, 117, 50, 115, 76>>,
      <<5, 235, 88, 79, 13, 149, 16, 211, 213, 112, 27, 93, 75, 175, 58, 3,
        190, 59, 4, 211, 222, 106, 58, 74, 187, 138, 242, 3, 14, 234, 92,
        126>>>>,
    <<<<66, 201, 144, 25, 41, 239, 191, 189, 73, 239, 191, 189, 7, 74, 239,
      191, 189, 239, 191, 189, 3, 239, 191, 189, 239, 191, 189, 105, 76, 36,
      51, 107>>,
      <<218, 112, 105, 158, 19, 240, 66, 236, 250, 179, 249, 179, 219, 144,
        128, 208, 238, 78, 200, 229, 207, 76, 112, 235, 236, 9, 214, 112, 40,
        217, 27, 16>>>>,
    <<<<81, 87, 71, 107, 0, 239, 191, 189, 34, 69, 239, 191, 189, 55, 76, 47,
      239, 191, 189, 239, 191, 189, 32, 121, 239, 191, 189, 72, 68, 239, 191,
      189>>,
      <<119, 188, 69, 19, 75, 100, 97, 105, 59, 64, 105, 144, 113, 119, 6,
        210, 237, 144, 229, 109, 116, 254, 63, 182, 249, 119, 37, 175, 88, 35,
        135, 132>>>>,
    <<<<77, 239, 191, 189, 13, 239, 191, 189, 17, 44, 78, 239, 191, 189, 8,
      239, 191, 189, 100, 51, 93, 239, 191, 189, 12, 239, 191, 189, 109, 76,
      119, 239, 191, 189>>,
      <<174, 42, 234, 18, 75, 82, 169, 84, 155, 184, 153, 95, 110, 19, 8, 40,
        198, 246, 107, 83, 199, 78, 170, 124, 7, 117, 67, 62, 38, 156, 180,
        113>>>>,
    <<<<228, 144, 130, 239, 191, 189, 239, 191, 189, 98, 239, 191, 189, 103,
      15, 239, 191, 189, 208, 136, 239, 191, 189, 89, 239, 191, 189, 23, 239,
      191, 189, 97, 3, 37>>,
      <<253, 61, 56, 187, 247, 30, 255, 94, 182, 63, 187, 12, 43, 205, 134,
        233, 165, 22, 94, 162, 55, 233, 11, 215, 54, 250, 34, 120, 179, 233,
        159, 123>>>>,
    <<<<0, 6, 35, 239, 191, 189, 230, 147, 158, 114, 82, 219, 162, 239, 191,
      189, 239, 191, 189, 34, 239, 191, 189, 32, 239, 191, 189, 239, 191, 189,
      78, 72, 239, 191, 189>>,
      <<50, 88, 139, 120, 138, 130, 136, 70, 21, 155, 23, 171, 80, 44, 25,
        249, 182, 6, 166, 253, 78, 173, 121, 168, 171, 235, 38, 226, 192, 4,
        228, 133>>>>,
    <<<<94, 239, 191, 189, 95, 239, 191, 189, 122, 66, 239, 191, 189, 239,
      191, 189, 239, 191, 189, 239, 191, 189, 107, 21, 198, 132, 36, 17, 239,
      191, 189, 239, 191, 189, 108, 77>>,
      <<120, 202, 206, 58, 82, 91, 154, 109, 29, 91, 72, 223, 155, 83, 115,
        200, 83, 191, 63, 231, 146, 3, 53, 163, 154, 48, 25, 142, 54, 220, 26,
        129>>>>,
    <<<<239, 191, 189, 6, 35, 239, 191, 189, 230, 147, 158, 114, 82, 219, 162,
      239, 191, 189, 239, 191, 189, 34, 239, 191, 189, 32, 239, 191, 189, 239,
      191, 189, 78, 72, 239, 191, 189>>,
      <<255, 167, 151, 177, 162, 115, 208, 92, 97, 57, 177, 50, 118, 171, 100,
        255, 251, 133, 77, 117, 72, 124, 159, 161, 183, 34, 87, 38, 234, 147,
        5, 238>>>>,
    <<<<239, 191, 189, 90, 115, 239, 191, 189, 25, 90, 239, 191, 189, 94, 239,
      191, 189, 239, 191, 189, 44, 239, 191, 189, 239, 191, 189, 33, 239, 191,
      189, 80, 239, 191, 189, 114, 100, 42>>,
      <<253, 19, 102, 146, 103, 209, 118, 155, 128, 119, 220, 151, 33, 115,
        107, 71, 128, 9, 36, 191, 7, 34, 19, 145, 191, 126, 104, 188, 54, 179,
        156, 220>>>>,
    <<<<239, 191, 189, 12, 239, 191, 189, 239, 191, 189, 239, 191, 189, 239,
      191, 189, 105, 239, 191, 189, 40, 40, 239, 191, 189, 73, 55, 239, 191,
      189, 239, 191, 189, 123, 216, 154, 110, 239, 191, 189>>,
      <<61, 157, 237, 193, 200, 100, 236, 4, 71, 152, 105, 213, 65, 189, 228,
        18, 76, 4, 33, 73, 92, 68, 241, 207, 238, 153, 221, 87, 194, 66, 203,
        215>>>>,
    <<<<239, 191, 189, 26, 239, 191, 189, 113, 239, 191, 189, 14, 239, 191,
      189, 239, 191, 189, 226, 180, 158, 239, 191, 189, 239, 191, 189, 239,
      191, 189, 94, 239, 191, 189, 239, 191, 189, 53, 239, 191, 189, 23, 239,
      191, 189>>,
      <<163, 48, 147, 170, 5, 231, 145, 48, 98, 142, 75, 196, 74, 226, 123,
        159, 132, 79, 50, 204, 238, 184, 117, 174, 169, 208, 81, 252, 68, 217,
        28, 89>>>>,
    <<<<239, 191, 189, 239, 191, 189, 239, 191, 189, 116, 239, 191, 189, 239,
      191, 189, 26, 239, 191, 189, 198, 140, 117, 239, 191, 189, 239, 191,
      189, 88, 239, 191, 189, 61, 87, 239, 191, 189, 239, 191, 189, 58, 239,
      191, 189>>,
      <<122, 110, 29, 79, 215, 249, 178, 63, 254, 215, 231, 247, 4, 32, 28,
        242, 40, 143, 121, 48, 39, 136, 171, 222, 74, 180, 213, 25, 81, 133,
        86, 161>>>>
  }

RIPEMD160Vectors ==
  {
    <<<<51, 50, 53, 56, 56, 98, 55, 56, 56, 97, 56, 50, 56, 56, 52, 54, 49,
      53, 57, 98, 49, 55, 97, 98, 53, 48, 50, 99, 49, 57, 102, 57, 98, 54, 48,
      54, 97, 54, 102, 100, 52, 101, 97, 100, 55, 57, 97, 56, 97, 98, 101, 98,
      50, 54, 101, 50, 99, 48, 48, 52, 101, 52, 56, 53>>,
      <<94, 232, 95, 217, 122, 66, 156, 177, 148, 202, 107, 21, 198, 132, 36,
        17, 185, 245, 108, 77>>>>,
    <<<<51, 100, 57, 100, 101, 100, 99, 49, 99, 56, 54, 52, 101, 99, 48, 52,
      52, 55, 57, 56, 54, 57, 100, 53, 52, 49, 98, 100, 101, 52, 49, 50, 52,
      99, 48, 52, 50, 49, 52, 57, 53, 99, 52, 52, 102, 49, 99, 102, 101, 101,
      57, 57, 100, 100, 53, 55, 99, 50, 52, 50, 99, 98, 100, 55>>,
      <<14, 30, 242, 66, 137, 137, 161, 69, 214, 204, 121, 248, 142, 211, 81,
        106, 188, 95, 7, 16>>>>,
    <<<<54, 52, 98, 51, 56, 55, 102, 97, 102, 99, 48, 49, 100, 101, 102, 97,
      48, 102, 53, 98, 100, 50, 98, 48, 57, 49, 101, 48, 101, 48, 55, 102, 98,
      56, 102, 55, 98, 53, 48, 99, 56, 57, 97, 57, 52, 97, 102, 101, 56, 51,
      51, 54, 100, 51, 102, 97, 97, 57, 101, 50, 101, 49, 48, 99>>,
      <<207, 192, 116, 139, 156, 26, 250, 198, 140, 117, 203, 222, 88, 150,
        61, 87, 222, 201, 58, 165>>>>,
    <<<<54, 101, 51, 52, 48, 98, 57, 99, 102, 102, 98, 51, 55, 97, 57, 56, 57,
      99, 97, 53, 52, 52, 101, 54, 98, 98, 55, 56, 48, 97, 50, 99, 55, 56, 57,
      48, 49, 100, 51, 102, 98, 51, 51, 55, 51, 56, 55, 54, 56, 53, 49, 49,
      97, 51, 48, 54, 49, 55, 97, 102, 97, 48, 49, 100>>,
      <<253, 12, 238, 249, 239, 198, 105, 165, 40, 40, 217, 73, 55, 226, 243,
        123, 216, 154, 110, 238>>>>,
    <<<<55, 55, 98, 99, 52, 53, 49, 51, 52, 98, 54, 52, 54, 49, 54, 57, 51,
      98, 52, 48, 54, 57, 57, 48, 55, 49, 55, 55, 48, 54, 100, 50, 101, 100,
      57, 48, 101, 53, 54, 100, 55, 52, 102, 101, 51, 102, 98, 54, 102, 57,
      55, 55, 50, 53, 97, 102, 53, 56, 50, 51, 56, 55, 56, 52>>,
      <<254, 52, 179, 74, 98, 168, 234, 132, 62, 101, 151, 140, 155, 156, 9,
        127, 218, 240, 239, 14>>>>,
    <<<<55, 56, 99, 97, 99, 101, 51, 97, 53, 50, 53, 98, 57, 97, 54, 100, 49,
      100, 53, 98, 52, 56, 100, 102, 57, 98, 53, 51, 55, 51, 99, 56, 53, 51,
      98, 102, 51, 102, 101, 55, 57, 50, 48, 51, 51, 53, 97, 51, 57, 97, 51,
      48, 49, 57, 56, 101, 51, 54, 100, 99, 49, 97, 56, 49>>,
      <<216, 120, 31, 72, 249, 37, 239, 140, 78, 106, 91, 41, 208, 160, 177,
        195, 217, 175, 47, 19>>>>,
    <<<<55, 97, 54, 101, 49, 100, 52, 102, 100, 55, 102, 57, 98, 50, 51, 102,
      102, 101, 100, 55, 101, 55, 102, 55, 48, 52, 50, 48, 49, 99, 102, 50,
      50, 56, 56, 102, 55, 57, 51, 48, 50, 55, 56, 56, 97, 98, 100, 101, 52,
      97, 98, 52, 100, 53, 49, 57, 53, 49, 56, 53, 53, 54, 97, 49>>,
      <<77, 166, 13, 175, 17, 44, 78, 168, 8, 254, 100, 51, 93, 196, 12, 202,
        109, 76, 119, 248>>>>,
    <<<<56, 51, 100, 53, 52, 52, 99, 99, 99, 50, 50, 51, 99, 48, 53, 55, 100,
      50, 98, 102, 56, 48, 100, 51, 102, 50, 97, 51, 50, 57, 56, 50, 99, 51,
      50, 99, 51, 99, 48, 100, 98, 56, 101, 50, 54, 55, 52, 56, 50, 48, 100,
      97, 53, 48, 54, 52, 55, 56, 51, 102, 98, 48, 57, 55>>,
      <<228, 144, 130, 167, 150, 98, 210, 103, 15, 167, 208, 136, 227, 89,
        172, 23, 190, 97, 3, 37>>>>,
    <<<<57, 49, 48, 100, 48, 52, 51, 48, 51, 55, 99, 57, 51, 56, 97, 55, 54,
      55, 102, 56, 50, 100, 99, 55, 50, 51, 50, 57, 99, 51, 55, 57, 50, 102,
      98, 97, 99, 102, 55, 53, 101, 54, 97, 53, 54, 49, 97, 101, 50, 49, 97,
      100, 52, 56, 51, 54, 99, 51, 50, 100, 52, 101, 48, 99>>,
      <<26, 227, 113, 171, 14, 182, 128, 226, 180, 158, 162, 135, 230, 94,
        219, 240, 53, 137, 23, 227>>>>,
    <<<<97, 51, 51, 48, 57, 51, 97, 97, 48, 53, 101, 55, 57, 49, 51, 48, 54,
      50, 56, 101, 52, 98, 99, 52, 52, 97, 101, 50, 55, 98, 57, 102, 56, 52,
      52, 102, 51, 50, 99, 99, 101, 101, 98, 56, 55, 53, 97, 101, 97, 57, 100,
      48, 53, 49, 102, 99, 52, 52, 100, 57, 49, 99, 53, 57>>,
      <<81, 87, 71, 107, 0, 204, 34, 69, 238, 55, 76, 47, 202, 238, 32, 121,
        140, 72, 68, 225>>>>,
    <<<<97, 98, 56, 57, 55, 102, 98, 100, 101, 100, 102, 97, 53, 48, 50, 98,
      50, 100, 56, 51, 57, 98, 54, 97, 53, 54, 49, 48, 48, 56, 56, 55, 100,
      99, 99, 100, 99, 53, 48, 55, 53, 53, 53, 99, 50, 56, 50, 101, 53, 57,
      53, 56, 57, 101, 48, 54, 51, 48, 48, 97, 54, 50, 101, 50>>,
      <<66, 201, 144, 25, 41, 251, 73, 231, 7, 74, 134, 194, 3, 190, 158, 105,
        76, 36, 51, 107>>>>,
    <<<<97, 101, 50, 97, 101, 97, 49, 50, 52, 98, 53, 50, 97, 57, 53, 52, 57,
      98, 98, 56, 57, 57, 53, 102, 54, 101, 49, 51, 48, 56, 50, 56, 99, 54,
      102, 54, 54, 98, 53, 51, 99, 55, 52, 101, 97, 97, 55, 99, 48, 55, 55,
      53, 52, 51, 51, 101, 50, 54, 57, 99, 98, 52, 55, 49>>,
      <<171, 2, 159, 14, 255, 63, 131, 30, 134, 135, 141, 19, 70, 217, 169,
        180, 203, 206, 207, 10>>>>,
    <<<<100, 97, 55, 48, 54, 57, 57, 101, 49, 51, 102, 48, 52, 50, 101, 99,
      102, 97, 98, 51, 102, 57, 98, 51, 100, 98, 57, 48, 56, 48, 100, 48, 101,
      101, 52, 101, 99, 56, 101, 53, 99, 102, 52, 99, 55, 48, 101, 98, 101,
      99, 48, 57, 100, 54, 55, 48, 50, 56, 100, 57, 49, 98, 49, 48>>,
      <<19, 22, 186, 39, 221, 220, 31, 60, 185, 124, 148, 74, 58, 160, 160,
        34, 207, 229, 30, 205>>>>,
    <<<<101, 101, 57, 48, 52, 48, 102, 54, 53, 99, 51, 52, 49, 56, 53, 53,
      101, 48, 55, 48, 102, 102, 52, 51, 56, 101, 98, 48, 101, 97, 57, 100,
      53, 98, 56, 51, 49, 98, 50, 97, 50, 99, 50, 55, 48, 102, 98, 55, 101,
      102, 53, 57, 50, 100, 55, 53, 48, 52, 48, 56, 101, 51, 98, 51>>,
      <<6, 35, 242, 230, 147, 158, 114, 82, 219, 162, 220, 249, 34, 243, 32,
        128, 227, 78, 72, 194>>>>,
    <<<<102, 100, 49, 51, 54, 54, 57, 50, 54, 55, 100, 49, 55, 54, 57, 98, 56,
      48, 55, 55, 100, 99, 57, 55, 50, 49, 55, 51, 54, 98, 52, 55, 56, 48, 48,
      57, 50, 52, 98, 102, 48, 55, 50, 50, 49, 51, 57, 49, 98, 102, 55, 101,
      54, 56, 98, 99, 51, 54, 98, 51, 57, 99, 100, 99>>,
      <<135, 178, 233, 209, 190, 176, 230, 42, 202, 54, 133, 61, 149, 148,
        122, 205, 180, 16, 254, 252>>>>,
    <<<<102, 100, 51, 100, 51, 56, 98, 98, 102, 55, 49, 101, 102, 102, 53,
      101, 98, 54, 51, 102, 98, 98, 48, 99, 50, 98, 99, 100, 56, 54, 101, 57,
      97, 53, 49, 54, 53, 101, 97, 50, 51, 55, 101, 57, 48, 98, 100, 55, 51,
      54, 102, 97, 50, 50, 55, 56, 98, 51, 101, 57, 57, 102, 55, 98>>,
      <<52, 19, 12, 174, 128, 89, 144, 157, 120, 42, 113, 188, 58, 160, 205,
        110, 167, 154, 11, 165>>>>,
    <<<<102, 102, 97, 55, 57, 55, 98, 49, 97, 50, 55, 51, 100, 48, 53, 99, 54,
      49, 51, 57, 98, 49, 51, 50, 55, 54, 97, 98, 54, 52, 102, 102, 102, 98,
      56, 53, 52, 100, 55, 53, 52, 56, 55, 99, 57, 102, 97, 49, 98, 55, 50,
      50, 53, 55, 50, 54, 101, 97, 57, 51, 48, 53, 101, 101>>,
      <<130, 90, 115, 164, 25, 90, 234, 94, 173, 243, 44, 167, 182, 33, 246,
        80, 223, 114, 100, 42>>>>
  }


\* SHA256(message).  crypto-js hashes the UTF-8 bytes of a string argument.
SHA256(bytes) == (CHOOSE e \in SHA256Vectors : e[1] = bytes)[2]

\* ripemd160.create().update(message).digest()
RIPEMD160(bytes) == (CHOOSE e \in RIPEMD160Vectors : e[1] = bytes)[2]

(***************************************************************************)
(* The library (src/gliesereum.ts).                                        *)
(***************************************************************************)

CHECKSUM_SIZE == 1

\* The version byte 0x90 that getAddress prefixes.
VersionByte == 144

\* What a call gives its caller: a value, or a thrown error.
Return(v) == [kind |-> "return", val |-> v, err |-> ""]
Throw(e) == [kind |-> "throw", val |-> << >>, err |-> e]

\* The string "invalid".
INVALID == <<105, 110, 118, 97, 108, 105, 100>>

\* createHash: the buffer is decoded to a string, the string is hashed, and
\* the hex text of the digest (not the digest) goes through RIPEMD-160.
createHash(bytes) ==
  LET sha256Hash == HexString(SHA256(Utf8Encode(Utf8Decode(bytes))))
  IN  RIPEMD160(Utf8Encode(sha256Hash))

createChecksum(bytes) == Slice(createHash(createHash(bytes)), 0, CHECKSUM_SIZE)

getAddress(bytes) ==
  LET pubKeyHash     == createHash(bytes)
      versionAndHash == <<VersionByte>> \o pubKeyHash
      checksum       == createChecksum(versionAndHash)
      fullPayload    == versionAndHash \o checksum
  IN  Base58Encode(fullPayload)

\* The checksum read from the front of the decoded key instead of its back.
validateAddressFrontChecksum(address) ==
  LET dec            == Base58Decode(address)
      decodedKey     == dec.val
      version        == ByteAt0(decodedKey)
      payload        == Slice(decodedKey, 1, -CHECKSUM_SIZE)
      actualChecksum == Slice(decodedKey, 0, CHECKSUM_SIZE)
      targetChecksum == createChecksum(<<version>> \o payload)
  IN  IF ~dec.ok THEN Throw("Non-base58 character")
      ELSE Return(targetChecksum = actualChecksum)

\* validateAddress: bs58.decode is called outside any try, so its error
\* reaches the caller; the version byte is hashed, never compared.
validateAddress(address) ==
  LET dec            == Base58Decode(address)
      decodedKey     == dec.val
      version        == ByteAt0(decodedKey)
      payload        == Slice(decodedKey, 1, -CHECKSUM_SIZE)
      actualChecksum == SliceFrom(decodedKey, -CHECKSUM_SIZE)
      targetChecksum == createChecksum(<<version>> \o payload)
  IN  IF ~dec.ok THEN Throw("Non-base58 character")
      ELSE Return(targetChecksum = actualChecksum)

\* The arithmetic of cardNumber on the hex text of the digest.  The number
\* returned is written by its decimal digits.
cardNumberOfHash(hash) ==
  LET num == parseInt16(Slice(hash, 0, 16))
  IN  DecimalDigits(RoundToDouble(LAdd(TenTo15, LMod(num, NineTenTo15))))

cardNumber(input) == cardNumberOfHash(HexString(SHA256(Utf8Encode(input))))

Wallet(publicKey, privateKey, address, number) ==
  [publicKey |-> publicKey, privateKey |-> privateKey, address |-> address,
   number |-> number]

\* createWallet, for the scalar priv in 1..n-1 that EC.genKeyPair() drew.
createWallet(priv) ==
  LET pair               == keyFromPrivate(priv)
      publicKey          == HexString(encodeUncompressed(getPublic(pair)).val)
      privateKey         == BNToHex(pair)
      concatenatedPubKey == encodeCompressed(getPublic(pair)).val
      address            == getAddress(concatenatedPubKey)
  IN  Return(Wallet(publicKey, privateKey, address, cardNumber(address)))

\* importFromPrivateKey: the hex string is read as a number and reduced
\* modulo n; encoding the public point of the scalar 0 throws a TypeError.
importFromPrivateKey(pKeyHex) ==
  LET keyPair            == keyFromPrivate(BNHex(pKeyHex))
      encoded            == encodeCompressed(getPublic(keyPair))
      concatenatedPubKey == encoded.val
      address            == getAddress(concatenatedPubKey)
  IN  IF ~encoded.ok THEN Throw(encoded.err)
      ELSE Return(Wallet(HexString(encodeUncompressed(getPublic(keyPair)).val),
                         BNToHex(keyPair), address, cardNumber(address)))

\* sign, with the nonce k of the signing round (see ecSign).
sign(data, key, k) == ecSign(data, HexDecode(key), k)

\* recover without its try and catch: what EC.recoverPubKey throws reaches
\* the caller.
recoverUncaught(data, sig) ==
  LET recovered == ecRecoverPubKey(data, sig, sig.recoveryParam)
      encoded   == encodeCompressed(recovered.val)
  IN  IF sig.recoveryParam = NoRecoveryParam THEN Return(INVALID)
      ELSE IF ~recovered.ok THEN Throw(recovered.err)
      ELSE IF ~encoded.ok THEN Throw(encoded.err)
      ELSE Return(HexString(encoded.val))

\* recover: an absent recovery id and an error thrown while recovering both
\* end in the returned string "invalid".
recover(data, sig) ==
  LET recovered == ecRecoverPubKey(data, sig, sig.recoveryParam)
      encoded   == encodeCompressed(recovered.val)
  IN  IF sig.recoveryParam = NoRecoveryParam THEN Return(INVALID)
      ELSE IF ~recovered.ok \/ ~encoded.ok THEN Return(INVALID)
      ELSE Return(HexString(encoded.val))

\* verify: nothing catches what EC.verify throws.
verify(data, sig, publicKey) ==
  LET res == ecVerify(data, sig, HexDecode(publicKey))
  IN  IF res.ok THEN Return(res.val) ELSE Throw(res.err)

(***************************************************************************)
(* The inputs the model draws.                                             *)
(***************************************************************************)

\* The longest message signed.
MaxMsgLen == 2

\* The scalars EC.genKeyPair() draws (1..n-1), and the nonces of signing.
GenKeys == {2, 100}
NonceSamples == {9, 150}

\* Private keys given to importFromPrivateKey: "00", "01", "05", then n, n+1
\* and n+5 ("c7", "c8", "cc").
ImportKeys ==
  {<<48, 48>>, <<48, 49>>, <<48, 53>>, <<99, 55>>, <<99, 56>>, <<99, 99>>}

\* Messages: the strings of the digits "0" and "1", up to MaxMsgLen long.
RECURSIVE StringsUpTo(_)
StringsUpTo(n) ==
  IF n = 0 THEN {<< >>}
  ELSE StringsUpTo(n - 1)
       \cup {Append(m, d) : m \in {x \in StringsUpTo(n - 1) : Len(x) = n - 1}, d \in {48, 49}}

Msgs == StringsUpTo(MaxMsgLen) \ {<< >>}

\* A message that is never signed: "2".
OtherMsg == <<50>>

\* The compressed public keys of the wallets the model makes.
WalletPubKeys == {encodeCompressed(GMul(k)).val : k \in {1, 2, 5, 100}}

\* An address built as getAddress builds it, under another version byte.
AddressWithVersion(version, bytes) ==
  LET versionAndHash == <<version>> \o createHash(bytes)
  IN  Base58Encode(versionAndHash \o createChecksum(versionAndHash))

\* The payload of an address with its last byte (the checksum) changed.
WrongChecksum(address) ==
  LET payload == Base58Decode(address).val
  IN  Base58Encode([payload EXCEPT ![Len(payload)] = (@ + 1) % 256])

\* The strings given to validateAddress: every wallet's address and the same
\* with a wrong checksum; addresses under the versions 0x00 and 0x91; the
\* empty string and the encodings of the one-byte payloads 0, 19, 144 and
\* 255; "0OIl" and "not-base58-!!!", which leave the Base58 alphabet.
AddressSamples ==
  {getAddress(k) : k \in WalletPubKeys}
  \cup {WrongChecksum(getAddress(k)) : k \in WalletPubKeys}
  \cup {AddressWithVersion(v, <<2, 3>>) : v \in {0, 145}}
  \cup {<< >>}
  \cup {Base58Encode(<<b>>) : b \in {0, 19, 144, 255}}
  \cup {<<48, 79, 73, 108>>,
        <<110, 111, 116, 45, 98, 97, 115, 101, 53, 56, 45, 33, 33, 33>>}

\* The first sixteen hex digits of a SHA-256 digest, for cardNumber called on
\* a string of the caller's: 0, 2^53 + 1, 9*10^15 - 2, 9*10^15 - 1, 9*10^15
\* and 2^64 - 1.  The primitive is a black box; as the string varies, the
\* digits take every value.
CardDigests ==
  {HexString(b) : b \in
    {<<0, 0, 0, 0, 0, 0, 0, 0>>,
     <<0, 32, 0, 0, 0, 0, 0, 1>>,
     <<0, 31, 249, 115, 202, 250, 127, 254>>,
     <<0, 31, 249, 115, 202, 250, 127, 255>>,
     <<0, 31, 249, 115, 202, 250, 128, 0>>,
     <<255, 255, 255, 255, 255, 255, 255, 255>>}}

\* Public keys given to verify besides the signer's own: the empty string
\* and "0201" (no point of the curve has x = 1).
PublicKeySamples == {<< >>, <<48, 50, 48, 49>>}

(***************************************************************************)
(* The caller's state.                                                     *)
(***************************************************************************)

VARIABLES
  wallet,     \* the Wallet the caller holds (NoWallet: none yet)
  signature,  \* the Signature it holds, with the message and key signed
  last        \* its last call: the function, the arguments, the outcome
              \* (a boolean result in flag, a string or a number in str; a
              \* Wallet or a Signature returned is in wallet or signature)

vars == <<wallet, signature, last>>

NoWallet == Wallet(<< >>, << >>, << >>, << >>)

NoSig == Signature(0, 0, NoRecoveryParam)

NoSignature == [sig |-> NoSig, data |-> << >>, key |-> << >>]

\* A call and its outcome out, where what is returned is a Wallet or a
\* Signature, a boolean, a string or a number.
Call(op, data, sig, key, out) ==
  [op |-> op, data |-> data, sig |-> sig, key |-> key,
   kind |-> out.kind, err |-> out.err, flag |-> FALSE, str |-> << >>]

CallFlag(op, data, sig, key, out) ==
  [Call(op, data, sig, key, out) EXCEPT !.flag = out.kind = "return" /\ out.val]

CallStr(op, data, sig, key, out) ==
  [Call(op, data, sig, key, out) EXCEPT
     !.str = IF out.kind = "return" THEN out.val ELSE << >>]

Init ==
  /\ wallet = NoWallet
  /\ signature = NoSignature
  /\ last = Call("none", << >>, NoSig, << >>, Return(<< >>))

\* The public key of a private key, as hex: compressed, and uncompressed as
\* a Wallet exposes it.
CompressedHex(key) == HexString(encodeCompressed(GMul(BNHex(key))).val)
UncompressedHex(key) == HexString(encodeUncompressed(GMul(BNHex(key))).val)

\* Signatures given to recover: the one held, the same without its recovery
\* id, and the same with r = 1, the x of no point.
RecoverSamples(sig) ==
  {sig, [sig EXCEPT !.recoveryParam = NoRecoveryParam], [sig EXCEPT !.r = 1]}

\* Signatures given to verify: the one held, and the same with s = 0.
VerifySamples(sig) == {sig, [sig EXCEPT !.s = 0]}

\* What a caller holding the signature `held` gives to verify and to recover:
\* the message signed or another, and for verify the signer's public key in
\* both forms or one of PublicKeySamples.
VerifyInputsOf(held) ==
  {held.data, OtherMsg} \X VerifySamples(held.sig)
    \X (PublicKeySamples \cup {CompressedHex(held.key), UncompressedHex(held.key)})

RecoverInputsOf(held) == {held.data, OtherMsg} \X RecoverSamples(held.sig)

\* The functions of the library are pure.  What the ones that hash give on
\* the inputs above is computed once, by the definitions above.
CreateWalletOf == [priv \in GenKeys |-> createWallet(priv)]

ImportFromPrivateKeyOf == [pKeyHex \in ImportKeys |-> importFromPrivateKey(pKeyHex)]

ValidateAddressOf == [address \in AddressSamples |-> validateAddress(address)]

CardNumberOf == [hash \in CardDigests |-> cardNumberOfHash(hash)]

\* A caller that takes a new wallet keeps no signature of the one before.
CreateWallet ==
  \E priv \in GenKeys :
    LET out == CreateWalletOf[priv]
    IN  /\ wallet' = out.val
        /\ signature' = IF wallet' = wallet THEN signature ELSE NoSignature
        /\ last' = Call("createWallet", << >>, NoSig, << >>, out)

ImportFromPrivateKey ==
  \E pKeyHex \in ImportKeys :
    LET out == ImportFromPrivateKeyOf[pKeyHex]
    IN  /\ wallet' = IF out.kind = "return" THEN out.val ELSE wallet
        /\ signature' = IF wallet' = wallet THEN signature ELSE NoSignature
        /\ last' = Call("importFromPrivateKey", << >>, NoSig, pKeyHex, out)

ValidateAddress ==
  \E address \in AddressSamples :
    /\ last' = CallFlag("validateAddress", address, NoSig, << >>,
                        ValidateAddressOf[address])
    /\ UNCHANGED <<wallet, signature>>

CardNumber ==
  \E hash \in CardDigests :
    /\ last' = CallStr("cardNumber", hash, NoSig, << >>, Return(CardNumberOf[hash]))
    /\ UNCHANGED <<wallet, signature>>

\* The caller signs a message with the private key of its wallet.
Sign ==
  /\ wallet # NoWallet
  /\ \E data \in Msgs, k \in NonceSamples :
       LET out == sign(data, wallet.privateKey, k)
       IN  /\ out.ok
           /\ signature' = [sig |-> out.val, data |-> data, key |-> wallet.privateKey]
           /\ last' = Call("sign", data, out.val, wallet.privateKey, Return(out.val))
           /\ UNCHANGED wallet

Verify ==
  /\ signature # NoSignature
  /\ \E x \in VerifyInputsOf(signature) :
       /\ last' = CallFlag("verify", x[1], x[2], x[3], verify(x[1], x[2], x[3]))
       /\ UNCHANGED <<wallet, signature>>

Recover ==
  /\ signature # NoSignature
  /\ \E x \in RecoverInputsOf(signature) :
       /\ last' = CallStr("recover", x[1], x[2], << >>, recover(x[1], x[2]))
       /\ UNCHANGED <<wallet, signature>>

Next ==
  \/ CreateWallet
  \/ ImportFromPrivateKey
  \/ ValidateAddress
  \/ CardNumber
  \/ Sign
  \/ Verify
  \/ Recover

Spec == Init /\ [][Next]_vars

(***************************************************************************)
(* The properties.                                                         *)
(***************************************************************************)

\* The last call was validateAddress, on a string that decodes.
ValidatedPayload ==
  /\ last.op = "validateAddress"
  /\ Base58Decode(last.data).ok

\* The compressed public key of the wallet held.
WalletPubKey == encodeCompressed(GMul(BNHex(wallet.privateKey))).val

\* C1: the address of the wallet held, which createWallet or
\* importFromPrivateKey built with getAddress from the compressed public key,
\* is accepted by validateAddress: the call returns true.
C1_RoundTrip ==
  (wallet # NoWallet /\ last.op = "validateAddress" /\ last.data = wallet.address)
    => (last.kind = "return" /\ last.flag = TRUE)

C1_Witness ==
  /\ wallet # NoWallet
  /\ last.op = "validateAddress"
  /\ last.data = wallet.address
  /\ last.kind = "return"

\* C2: validateAddress is total: on a string with a character outside the
\* Base58 alphabet it returns false and raises nothing.
C2_TotalPredicate ==
  (last.op = "validateAddress" /\ ~Base58Decode(last.data).ok)
    => (last.kind = "return" /\ last.flag = FALSE)

\* C3: an address whose decoded payload is shorter than 1 + CHECKSUM_SIZE
\* bytes is reported invalid: validateAddress returns false.
C3_ShortPayloadInvalid ==
  (ValidatedPayload /\ Len(Base58Decode(last.data).val) < 1 + CHECKSUM_SIZE)
    => (last.kind = "return" /\ last.flag = FALSE)

\* recover was given a signature with no recovery id, or one from which no
\* public key is rebuilt.
RecoveryFails ==
  \/ last.sig.recoveryParam = NoRecoveryParam
  \/ ~ecRecoverPubKey(last.data, last.sig, last.sig.recoveryParam).ok
  \/ ecRecoverPubKey(last.data, last.sig, last.sig.recoveryParam).val.inf

C5_RejectsOutOfRange ==
  (last.op = "importFromPrivateKey"
     /\ (BNHex(last.key) = 0 \/ BNHex(last.key) >= CurveN))
    => last.kind = "throw"

\* C6: verify returns false and throws nothing when r or s is out of range
\* or the public key is no point of the curve.
C6_VerifyNeverThrows ==
  (last.op = "verify"
     /\ (\/ ~decodePoint(HexDecode(last.key)).ok
         \/ last.sig.r \notin 1..(CurveN - 1)
         \/ last.sig.s \notin 1..(CurveN - 1)))
    => (last.kind = "return" /\ last.flag = FALSE)

\* C7: recover, given a message and the signature sign made of it, returns
\* the signer's public key in compressed form.
C7_RecoverSigner ==
  (last.op = "recover" /\ last.data = signature.data /\ last.sig = signature.sig)
    => (last.kind = "return" /\ last.str = CompressedHex(signature.key))

\* C8: cardNumber returns a number of sixteen digits, one in
\* [10^15, 10^16 - 1], whatever the sixteen hex digits of the digest are.
C8_SixteenDigits ==
  last.op = "cardNumber" => (Len(last.str) = 16 /\ last.str[1] # 0)

\* No two messages of the vectors have the same digest.
CollisionFree(vectors) ==
  \A e1, e2 \in vectors : e1[2] = e2[2] => e1[1] = e2[1]

\* C9: where the hash primitives do not collide, a public key other than the
\* one of the wallet held gets from getAddress another address than the
\* wallet's.
C9_Injective ==
  (wallet # NoWallet /\ CollisionFree(SHA256Vectors) /\ CollisionFree(RIPEMD160Vectors))
    => \A bytes \in WalletPubKeys :
         bytes # WalletPubKey => getAddress(bytes) # wallet.address

\* C10: validateAddress returns true only for a payload that begins with the
\* version byte 0x90 (payloads too short to hold a version and a checksum
\* are the matter of C3).
C10_VersionChecked ==
  (ValidatedPayload
     /\ Len(Base58Decode(last.data).val) >= 1 + CHECKSUM_SIZE
     /\ last.kind = "return" /\ last.flag = TRUE)
    => ByteAt0(Base58Decode(last.data).val) = VersionByte

=============================================================================
